---- MODULE Spec2Model ----
(***************************************************************************)
(* report-forge: the Excel consolidation pipeline of src-tauri.            *)
(*                                                                         *)
(* A Rust String is modelled as a sequence of one-character strings, so    *)
(* that trim, contains, join and split are computed character by           *)
(* character.  The CJK severity characters are written with ASCII          *)
(* stand-ins:  "G" = U+9AD8 (gao, high),  "Z" = U+4E2D (zhong, medium),    *)
(* "D" = U+4F4E (di, low),  "W" = U+5371 (wei, the second character of the *)
(* two-character keywords), "V" "K" = U+672A U+77E5 (weizhi, unknown).     *)
(***************************************************************************)
EXTENDS Integers, Sequences, FiniteSets, TLC

VARIABLES pc, files, raw, merged, records, unique, unique2, result, result2,
          idx, all_results, progress, progress_log, report, statistics,
          severity, level

vars == <<pc, files, raw, merged, records, unique, unique2, result, result2,
          idx, all_results, progress, progress_log, report, statistics,
          severity, level>>

(***************************************************************************)
(* Bounds of the model.                                                    *)
(***************************************************************************)
MaxFiles == 3
MaxRows == 3
MaxLabel == 3

(***************************************************************************)
(* str helpers (Rust std).                                                 *)
(***************************************************************************)
Whitespace == {" "}
Pipe == "|"

RECURSIVE TrimStart(_)
TrimStart(s) ==
    IF s # <<>> /\ Head(s) \in Whitespace THEN TrimStart(Tail(s)) ELSE s

RECURSIVE TrimEnd(_)
TrimEnd(s) ==
    IF s # <<>> /\ s[Len(s)] \in Whitespace
    THEN TrimEnd(SubSeq(s, 1, Len(s) - 1))
    ELSE s

Trim(s) == TrimEnd(TrimStart(s))

Contains(s, pat) ==
    \E i \in 1..(Len(s) - Len(pat) + 1) : SubSeq(s, i, i + Len(pat) - 1) = pat

RECURSIVE Join(_, _)
Join(parts, sep) ==
    IF parts = <<>> THEN <<>>
    ELSE IF Len(parts) = 1 THEN parts[1]
    ELSE parts[1] \o <<sep>> \o Join(Tail(parts), sep)

RECURSIVE Split(_, _)
Split(s, sep) ==
    IF \A i \in 1..Len(s) : s[i] # sep THEN <<s>>
    ELSE LET i == CHOOSE j \in 1..Len(s) :
                      s[j] = sep /\ \A k \in 1..(j - 1) : s[k] # sep
         IN  <<SubSeq(s, 1, i - 1)>> \o Split(SubSeq(s, i + 1, Len(s)), sep)

(* parts.get(n).unwrap_or(&"") with n counted from 0 *)
GetOrEmpty(parts, n) == IF n + 1 <= Len(parts) THEN parts[n + 1] ELSE <<>>

(***************************************************************************)
(* models/mod.rs                                                           *)
(***************************************************************************)
from_severity_low_first(text) ==
    IF Contains(text, <<"D", "W">>) \/ Contains(text, <<"D">>) THEN "Low"
    ELSE IF Contains(text, <<"Z", "W">>) \/ Contains(text, <<"Z">>) THEN "Medium"
    ELSE IF Contains(text, <<"G", "W">>) \/ Contains(text, <<"G">>) THEN "High"
    ELSE "Unknown"

from_severity(text) ==
    IF Contains(text, <<"G", "W">>) \/ Contains(text, <<"G">>) THEN "High"
    ELSE IF Contains(text, <<"Z", "W">>) \/ Contains(text, <<"Z">>) THEN "Medium"
    ELSE IF Contains(text, <<"D", "W">>) \/ Contains(text, <<"D">>) THEN "Low"
    ELSE "Unknown"

priority(risk) ==
    CASE risk = "High" -> 1
      [] risk = "Medium" -> 2
      [] risk = "Low" -> 3
      [] OTHER -> 999

(* RiskInfo::from_severity(severity).priority *)
RiskPriority(text) == priority(from_severity(text))

(***************************************************************************)
(* ExcelProcessor::read_excel_raw.  A workbook is what calamine yields for *)
(* a path: whether the file opens with a first worksheet, and its rows     *)
(* (header row first).                                                     *)
(***************************************************************************)
NoError == [kind |-> "none", file |-> "", column |-> 0,
            current |-> <<>>, reference |-> <<>>,
            current_len |-> 0, reference_len |-> 0]

ReadError(kind, path) == [NoError EXCEPT !.kind = kind, !.file = path]

read_excel_raw(wb) ==
    IF ~wb.readable
    THEN [ok |-> FALSE, headers |-> <<>>, rows |-> <<>>,
          err |-> ReadError("open", wb.path)]
    ELSE IF wb.rows = <<>>
    THEN [ok |-> FALSE, headers |-> <<>>, rows |-> <<>>,
          err |-> ReadError("empty", wb.path)]
    ELSE IF Len(wb.rows) <= 1
    THEN [ok |-> FALSE, headers |-> <<>>, rows |-> <<>>,
          err |-> ReadError("header_only", wb.path)]
    ELSE [ok |-> TRUE, headers |-> wb.rows[1], rows |-> Tail(wb.rows),
          err |-> NoError]

(***************************************************************************)
(* ExcelProcessor::merge_excel_files.  The value returned is               *)
(* Result<RawExcelData>: ok with headers and rows, or an error (headers    *)
(* and rows empty).  reads is the history of the calls of read_excel_raw,  *)
(* by position in excel_files.                                             *)
(***************************************************************************)
MergeErr(err, reads) ==
    [ok |-> FALSE, headers |-> <<>>, rows |-> <<>>, err |-> err, reads |-> reads]

validate_headers_untrimmed(current_headers, reference_headers, path) ==
    IF Len(current_headers) # Len(reference_headers)
    THEN [NoError EXCEPT !.kind = "header_count", !.file = path,
                         !.current_len = Len(current_headers),
                         !.reference_len = Len(reference_headers)]
    ELSE LET bad == {p \in 1..Len(current_headers) :
                        current_headers[p] # reference_headers[p]}
         IN  IF bad = {} THEN NoError
             ELSE LET p == CHOOSE q \in bad : \A r \in bad : q <= r
                  IN  [NoError EXCEPT !.kind = "header_content", !.file = path,
                                      !.column = (p - 1) + 1,
                                      !.current = current_headers[p],
                                      !.reference = reference_headers[p]]

(* lines 88-112: the header count, then the first column (i counted from   *)
(* 0, reported as i + 1) whose trimmed texts differ                        *)
validate_headers(current_headers, reference_headers, path) ==
    IF Len(current_headers) # Len(reference_headers)
    THEN [NoError EXCEPT !.kind = "header_count", !.file = path,
                         !.current_len = Len(current_headers),
                         !.reference_len = Len(reference_headers)]
    ELSE LET bad == {p \in 1..Len(current_headers) :
                        Trim(current_headers[p]) # Trim(reference_headers[p])}
         IN  IF bad = {} THEN NoError
             ELSE LET p == CHOOSE q \in bad : \A r \in bad : q <= r
                  IN  [NoError EXCEPT !.kind = "header_content", !.file = path,
                                      !.column = (p - 1) + 1,
                                      !.current = current_headers[p],
                                      !.reference = reference_headers[p]]

extend_rows_front(merged_rows, rows) == rows \o merged_rows

(* line 116: merged_rows.extend(current_data.rows) *)
extend_rows(merged_rows, rows) == merged_rows \o rows

(* a loop body that logs a bad source and goes on to the next one *)
merge_step_skip_bad(acc, wb, k) ==
    LET current_data == read_excel_raw(wb)
        reads == Append(acc.reads, k)
    IN  IF ~current_data.ok THEN [acc EXCEPT !.reads = reads]
        ELSE LET err == validate_headers(current_data.headers, acc.headers, wb.path)
             IN  IF err.kind # "none" THEN [acc EXCEPT !.reads = reads]
                 ELSE [acc EXCEPT !.rows = extend_rows(acc.rows, current_data.rows),
                                  !.reads = reads]

(* a loop body that takes each source as the reference of the next one *)
merge_step_chain_reference(acc, wb, k) ==
    LET current_data == read_excel_raw(wb)
        reads == Append(acc.reads, k)
    IN  IF ~current_data.ok THEN MergeErr(current_data.err, reads)
        ELSE LET err == validate_headers(current_data.headers, acc.headers, wb.path)
             IN  IF err.kind # "none" THEN MergeErr(err, reads)
                 ELSE [acc EXCEPT !.rows = extend_rows(acc.rows, current_data.rows),
                                  !.headers = current_data.headers,
                                  !.reads = reads]

(* lines 85-117, one iteration of the loop over excel_files[1..] *)
merge_step(acc, wb, k) ==
    LET current_data == read_excel_raw(wb)
        reads == Append(acc.reads, k)
    IN  IF ~current_data.ok THEN MergeErr(current_data.err, reads)
        ELSE LET err == validate_headers(current_data.headers, acc.headers, wb.path)
             IN  IF err.kind # "none" THEN MergeErr(err, reads)
                 ELSE [acc EXCEPT !.rows = extend_rows(acc.rows, current_data.rows),
                                  !.reads = reads]

RECURSIVE MergeLoop(_, _, _)
MergeLoop(excel_files, k, acc) ==
    IF k > Len(excel_files) \/ ~acc.ok THEN acc
    ELSE MergeLoop(excel_files, k + 1, merge_step(acc, excel_files[k], k))

merge_excel_files_empty_ok(excel_files) ==
    IF excel_files = <<>>
    THEN [ok |-> TRUE, headers |-> <<>>, rows |-> <<>>, err |-> NoError,
          reads |-> <<>>]
    ELSE LET first_data == read_excel_raw(excel_files[1])
         IN  IF ~first_data.ok THEN MergeErr(first_data.err, <<1>>)
             ELSE MergeLoop(excel_files, 2,
                            [ok |-> TRUE, headers |-> first_data.headers,
                             rows |-> first_data.rows, err |-> NoError,
                             reads |-> <<1>>])

merge_excel_files(excel_files) ==
    IF excel_files = <<>>
    THEN MergeErr(ReadError("no_files", ""), <<>>)
    ELSE LET first_data == read_excel_raw(excel_files[1])
         IN  IF ~first_data.ok THEN MergeErr(first_data.err, <<1>>)
             ELSE MergeLoop(excel_files, 2,
                            [ok |-> TRUE, headers |-> first_data.headers,
                             rows |-> first_data.rows, err |-> NoError,
                             reads |-> <<1>>])

(***************************************************************************)
(* ExcelProcessor::process_raw_data and its helpers.  A record is a        *)
(* HashMap<String, Option<String>>: a function from the column names it    *)
(* holds to None or Some(text).                                            *)
(***************************************************************************)
None == [some |-> FALSE, v |-> <<>>]
Some(s) == [some |-> TRUE, v |-> s]

Alphabet == <<"A", "B", "C", "D", "E", "F", "G", "H", "I", "J", "K", "L", "M",
              "N", "O", "P", "Q", "R", "S", "T", "U", "V", "W", "X", "Y", "Z">>

(* line 140: (b'A' + i as u8) as char, i counted from 0 *)
ColumnName(i) == Alphabet[i + 1]

Min(a, b) == IF a < b THEN a ELSE b

(* lines 134-141 *)
column_names(rows) ==
    LET column_count == IF rows # <<>> THEN Len(rows[1]) ELSE 0
    IN  [n \in 1..column_count |-> ColumnName(n - 1)]

DedupKeyWidth == 7

(* line 171: &column_names[..7.min(column_names.len())] *)
check_columns(names) == SubSeq(names, 1, Min(DedupKeyWidth, Len(names)))

(* lines 149-163 *)
to_record(row, names) ==
    [c \in {names[n] : n \in 1..Min(Len(row), Len(names))} |->
        LET n == CHOOSE m \in 1..Len(names) : names[m] = c
            cleaned == Trim(row[n])
        IN  IF cleaned = <<>> THEN None ELSE Some(cleaned)]

(* lines 146-165 *)
to_records(rows, names) == [n \in 1..Len(rows) |-> to_record(rows[n], names)]

(* record.get(col).and_then(|v| v.as_ref()).map(|s| s.as_str()).unwrap_or("") *)
get_or_empty(record, col) ==
    IF col \in DOMAIN record /\ record[col].some THEN record[col].v ELSE <<>>

(* lines 209-219 *)
dedup_key(record, cols) ==
    Join([n \in 1..Len(cols) |-> get_or_empty(record, cols[n])], Pipe)

(* a loop body that lets a later record replace the one kept for its key *)
dedup_step_keep_last(acc, record, cols) ==
    LET key == dedup_key(record, cols)
        Other(r) == dedup_key(r, cols) # key
    IN  [seen_keys |-> acc.seen_keys \cup {key},
         unique_records |-> Append(SelectSeq(acc.unique_records, Other), record)]

(* a loop body that forgets a key once its duplicate has been dropped *)
dedup_step_forget(acc, record, cols) ==
    LET key == dedup_key(record, cols)
    IN  IF key \notin acc.seen_keys
        THEN [seen_keys |-> acc.seen_keys \cup {key},
              unique_records |-> Append(acc.unique_records, record)]
        ELSE [acc EXCEPT !.seen_keys = acc.seen_keys \ {key}]

(* lines 207-224, one iteration *)
dedup_step(acc, record, cols) ==
    LET key == dedup_key(record, cols)
    IN  IF key \notin acc.seen_keys
        THEN [seen_keys |-> acc.seen_keys \cup {key},
              unique_records |-> Append(acc.unique_records, record)]
        ELSE acc

RECURSIVE DedupLoop(_, _, _, _)
DedupLoop(recs, cols, n, acc) ==
    IF n > Len(recs) THEN acc
    ELSE DedupLoop(recs, cols, n + 1, dedup_step(acc, recs[n], cols))

deduplicate_records(recs, cols) ==
    DedupLoop(recs, cols, 1, [seen_keys |-> {}, unique_records |-> <<>>]).unique_records

(* lines 238-250 *)
group_key(record, col_b, col_d) ==
    get_or_empty(record, col_b) \o <<Pipe>> \o get_or_empty(record, col_d)

group_step_push_front(grouped, record, col_b, col_d) ==
    LET key == group_key(record, col_b, col_d)
    IN  [k \in DOMAIN grouped \cup {key} |->
            IF k = key
            THEN (IF key \in DOMAIN grouped THEN <<record>> \o grouped[key]
                  ELSE <<record>>)
            ELSE grouped[k]]

(* lines 252-255: grouped.entry(group_key).or_insert_with(Vec::new).push(..) *)
group_step(grouped, record, col_b, col_d) ==
    LET key == group_key(record, col_b, col_d)
    IN  [k \in DOMAIN grouped \cup {key} |->
            IF k = key
            THEN (IF key \in DOMAIN grouped THEN Append(grouped[key], record)
                  ELSE <<record>>)
            ELSE grouped[k]]

RECURSIVE GroupLoop(_, _, _, _, _)
GroupLoop(recs, col_b, col_d, n, grouped) ==
    IF n > Len(recs) THEN grouped
    ELSE GroupLoop(recs, col_b, col_d, n + 1,
                   group_step(grouped, recs[n], col_b, col_d))

EmptyMap == [k \in {} |-> <<>>]

(* the HashMap returned: a function from group key to the group's records *)
group_data_by_columns(recs, col_b, col_d) ==
    GroupLoop(recs, col_b, col_d, 1, EmptyMap)

(* lines 269-286 *)
group_entry(group_key_, recs) ==
    LET parts == Split(group_key_, Pipe)
        b_value == GetOrEmpty(parts, 0)
        d_value == GetOrEmpty(parts, 1)
    IN  [key |-> group_key_,
         info |-> [b_column |-> b_value, d_column |-> d_value,
                   record_count |-> Len(recs), records |-> recs],
         priority |-> RiskPriority(d_value)]

sort_less_count_ascending(a, b) ==
    \/ a.priority < b.priority
    \/ a.priority = b.priority /\ a.info.record_count < b.info.record_count

(* lines 290-295: the comparator says a sorts before b *)
sort_less(a, b) ==
    \/ a.priority < b.priority
    \/ a.priority = b.priority /\ b.info.record_count < a.info.record_count

(* slice::sort_by is a stable sort: x, which came after every element of   *)
(* sorted, is placed behind every element that is not greater than it      *)
SortInsert(sorted, x) ==
    LET n == Cardinality({i \in 1..Len(sorted) : ~sort_less(x, sorted[i])})
    IN  SubSeq(sorted, 1, n) \o <<x>> \o SubSeq(sorted, n + 1, Len(sorted))

RECURSIVE sort_by(_)
sort_by(seq) ==
    IF seq = <<>> THEN <<>>
    ELSE SortInsert(sort_by(SubSeq(seq, 1, Len(seq) - 1)), seq[Len(seq)])

(* the orders in which a HashMap with these keys can be iterated *)
RECURSIVE Orders(_)
Orders(keys) ==
    IF keys = {} THEN {<<>>}
    ELSE UNION {{<<k>> \o o : o \in Orders(keys \ {k})} : k \in keys}

(* lines 262-308; order is the iteration order of grouped_data *)
create_structured_result(grouped_data, total_records, order) ==
    LET grouped_structured ==
            sort_by([n \in 1..Len(order) |->
                        group_entry(order[n], grouped_data[order[n]])])
        grouped == [n \in 1..Len(grouped_structured) |->
                        [key |-> grouped_structured[n].key,
                         info |-> grouped_structured[n].info]]
    IN  [total_groups |-> Len(grouped), total_records |-> total_records,
         grouped_data |-> grouped]

(* lines 131-172: the records before and after deduplication *)
records_of(raw_data) == to_records(raw_data.rows, column_names(raw_data.rows))

unique_of(raw_data) ==
    deduplicate_records(records_of(raw_data),
                        check_columns(column_names(raw_data.rows)))

(* line 177 *)
grouped_of(raw_data) == group_data_by_columns(unique_of(raw_data), "B", "D")

HashOrders(raw_data) == Orders(DOMAIN grouped_of(raw_data))

process_raw_data_count_before_dedup(raw_data, order) ==
    create_structured_result(grouped_of(raw_data), Len(records_of(raw_data)), order)

(* lines 128-189 *)
process_raw_data(raw_data, order) ==
    create_structured_result(grouped_of(raw_data), Len(unique_of(raw_data)), order)

(***************************************************************************)
(* commands/report_commands.rs                                             *)
(***************************************************************************)
EmptyResult == [total_groups |-> 0, total_records |-> 0, grouped_data |-> <<>>]

RECURSIVE SumTotals(_)
SumTotals(results) ==
    IF results = <<>> THEN 0
    ELSE results[1].total_records + SumTotals(Tail(results))

RECURSIVE ConcatGroups(_)
ConcatGroups(results) ==
    IF results = <<>> THEN <<>>
    ELSE results[1].grouped_data \o ConcatGroups(Tail(results))

(* lines 209-223 *)
merge_excel_results(results) ==
    LET all_grouped_data == ConcatGroups(results)
    IN  [total_groups |-> Len(all_grouped_data),
         total_records |-> SumTotals(results),
         grouped_data |-> all_grouped_data]

(* WordGenerator::generate_statistics, word_generator.rs lines 115-141 *)
severity_label(d_column) ==
    IF Contains(d_column, <<"G", "W">>) \/ Contains(d_column, <<"G">>) THEN <<"G">>
    ELSE IF Contains(d_column, <<"Z", "W">>) \/ Contains(d_column, <<"Z">>) THEN <<"Z">>
    ELSE IF Contains(d_column, <<"D", "W">>) \/ Contains(d_column, <<"D">>) THEN <<"D">>
    ELSE <<"V", "K">>

generate_statistics_from_zero(result_data) ==
    [n \in 1..Len(result_data.grouped_data) |->
        LET group_info == result_data.grouped_data[n].info
        IN  [seq_num |-> n - 1,
             problem_name |-> group_info.b_column,
             severity_level |-> severity_label(group_info.d_column),
             problem_count |-> group_info.record_count]]

(* seq_num starts at 1 and is incremented after each push *)
generate_statistics(result_data) ==
    [n \in 1..Len(result_data.grouped_data) |->
        LET group_info == result_data.grouped_data[n].info
        IN  [seq_num |-> 1 + (n - 1),
             problem_name |-> group_info.b_column,
             severity_level |-> severity_label(group_info.d_column),
             problem_count |-> group_info.record_count]]

(* lines 34-51: the register holds Some(ProgressInfo) *)
update_progress(current, total) == [set |-> TRUE, current |-> current, total |-> total]

NoProgress == [set |-> FALSE, current |-> 0, total |-> 0]

(* ExcelProcessor::process_excel_to_json, lines 192-197 *)
process_excel_to_json(wb, order) ==
    LET raw_data == read_excel_raw(wb)
    IN  IF ~raw_data.ok
        THEN [ok |-> FALSE, err |-> raw_data.err, value |-> EmptyResult]
        ELSE [ok |-> TRUE, err |-> NoError,
              value |-> process_raw_data(raw_data, order)]

(***************************************************************************)
(* The inputs: header rows, data rows and workbooks the operations are     *)
(* applied to.                                                             *)
(***************************************************************************)
HdrABCD == << <<"A">>, <<"B">>, <<"C">>, <<"D">> >>
HdrABCDpadded == << <<" ", "A">>, <<"B", " ">>, <<"C">>, <<" ", "D", " ">> >>
HdrAXCY == << <<"A">>, <<"X">>, <<"C">>, <<"Y">> >>
HdrAB == << <<"A">>, <<"B">> >>
HdrAX == << <<"A">>, <<"X">> >>

RowP1High == << <<"1">>, <<"P", "1">>, <<>>, <<"G">> >>
RowP2High == << <<"2">>, <<"P", "2">>, <<>>, <<"G">> >>
RowPipeA == << <<" ", "1", "|">>, <<"P", "1", " ">>, <<" ">>, <<" ", "G", " ">> >>
RowP1HighOther == << <<"3">>, <<"P", "1">>, <<>>, <<"G">> >>
RowP3Medium == << <<"1">>, <<"P", "3">>, <<>>, <<"Z", "W">> >>
RowP4Unknown == << <<"1">>, <<"P", "4">>, <<>>, <<"q">> >>
RowPipeB == << <<"1">>, <<"|", "P", "1">>, <<>>, <<"G">> >>
RowP5Low == << <<"1">>, <<"P", "5">>, <<>>, <<"D", "W">> >>
RowShort == << <<"1">>, <<"P", "1">> >>
RowShortOther == << <<"2">>, <<"P", "2">> >>
RowWide == << <<"1">>, <<"P", "1">>, <<>>, <<"G">>, <<>>, <<>>, <<>>, <<"x">> >>
RowPool == {RowP1High, RowP2High, RowPipeA, RowP1HighOther, RowP3Medium,
            RowP4Unknown, RowPipeB, RowWide}

Workbook(path, readable, rows) == [path |-> path, readable |-> readable, rows |-> rows]

WorkbookPool ==
    { Workbook("bad.xlsx", FALSE, <<>>),
      Workbook("empty.xlsx", TRUE, <<>>),
      Workbook("header.xlsx", TRUE, <<HdrABCD>>),
      Workbook("a.xlsx", TRUE, <<HdrABCD, RowP1High, RowP2High>>),
      Workbook("b.xlsx", TRUE,
               <<HdrABCDpadded, RowP1High, RowP1HighOther, RowP3Medium,
                 RowP4Unknown>>),
      Workbook("d.xlsx", TRUE, <<HdrAXCY, RowP5Low>>),
      Workbook("e.xlsx", TRUE, <<HdrAB, RowShort>>),
      Workbook("f.xlsx", TRUE, <<HdrAX, RowShortOther>>) }

SeqsUpTo(S, n) == UNION {[1..m -> S] : m \in 0..n}

FileLists == SeqsUpTo(WorkbookPool, MaxFiles)

RawInputs == {[headers |-> <<>>, rows |-> rows] : rows \in SeqsUpTo(RowPool, MaxRows)}

LabelChars == {"G", "Z", "D", "W", "q"}

Labels == SeqsUpTo(LabelChars, MaxLabel)

EmptyRaw == [headers |-> <<>>, rows |-> <<>>]
NotMerged == MergeErr(NoError, <<>>)
NoReport == [status |-> "none", stage |-> "none", data |-> EmptyResult]

(***************************************************************************)
(* The state machine.  pc = "files": excel_files are given and one of      *)
(* merge_excel_files and generate_report is called with them; pc = "raw":  *)
(* process_raw_data is called with raw.                                    *)
(***************************************************************************)
Init ==
    /\ \/ pc = "files" /\ files \in FileLists /\ raw = EmptyRaw /\ severity = <<>>
       \/ pc = "raw" /\ files = <<>> /\ raw \in RawInputs /\ severity = <<>>
       \/ pc = "label" /\ files = <<>> /\ raw = EmptyRaw /\ severity \in Labels
    /\ level = "none"
    /\ statistics = <<>>
    /\ merged = NotMerged
    /\ records = <<>>
    /\ unique = <<>>
    /\ unique2 = <<>>
    /\ result = EmptyResult
    /\ result2 = EmptyResult
    /\ idx = 0
    /\ all_results = <<>>
    /\ progress = NoProgress
    /\ progress_log = <<>>
    /\ report = NoReport

MergeFiles ==
    /\ UNCHANGED <<statistics, severity, level>>
    /\ pc = "files"
    /\ merged' = merge_excel_files(files)
    /\ pc' = "merged"
    /\ UNCHANGED <<files, raw, records, unique, unique2, result, result2, idx,
                   all_results, progress, progress_log, report>>

Process(raw_data) ==
    /\ UNCHANGED <<statistics, severity, level>>
    /\ raw' = raw_data
    /\ records' = records_of(raw_data)
    /\ unique' = unique_of(raw_data)
    /\ pc' = "processed"
    /\ UNCHANGED <<files, merged, unique2, result2, idx, all_results, progress,
                   progress_log, report>>
    /\ \E order \in HashOrders(raw_data) :
           result' = process_raw_data(raw_data, order)

ProcessRaw ==
    /\ pc = "raw"
    /\ Process(raw)

ProcessMerged ==
    /\ pc = "merged"
    /\ merged.ok
    /\ Process([headers |-> merged.headers, rows |-> merged.rows])

ProcessAgain ==
    /\ UNCHANGED <<statistics, severity, level>>
    /\ pc = "processed"
    /\ \E order \in HashOrders(raw) : result2' = process_raw_data(raw, order)
    /\ pc' = "rerun"
    /\ UNCHANGED <<files, raw, merged, records, unique, unique2, result, idx,
                   all_results, progress, progress_log, report>>

DedupAgain ==
    /\ UNCHANGED <<statistics, severity, level>>
    /\ pc = "processed"
    /\ unique2' = deduplicate_records(unique, check_columns(column_names(raw.rows)))
    /\ pc' = "deduped"
    /\ UNCHANGED <<files, raw, merged, records, unique, result, result2, idx,
                   all_results, progress, progress_log, report>>

(* generate_report, lines 105-109 *)
GenStart ==
    /\ UNCHANGED <<statistics, severity, level>>
    /\ pc = "files"
    /\ progress' = NoProgress
    /\ all_results' = <<>>
    /\ idx' = 0
    /\ pc' = "gen"
    /\ UNCHANGED <<files, raw, merged, records, unique, unique2, result, result2,
                   progress_log, report>>

(* generate_report, lines 111-137: one iteration of the loop *)
GenFile ==
    /\ UNCHANGED <<statistics, severity, level>>
    /\ pc = "gen"
    /\ idx < Len(files)
    /\ progress' = update_progress(idx + 1, Len(files))
    /\ progress_log' = Append(progress_log, progress')
    /\ \E order \in HashOrders(read_excel_raw(files[idx + 1])) :
          LET r == process_excel_to_json(files[idx + 1], order)
          IN  IF r.ok
              THEN /\ all_results' = Append(all_results, r.value)
                   /\ idx' = idx + 1
                   /\ pc' = "gen"
                   /\ report' = report
              ELSE /\ report' = [status |-> "error", stage |-> "excel",
                                 data |-> EmptyResult]
                   /\ pc' = "done"
                   /\ UNCHANGED <<all_results, idx>>
    /\ UNCHANGED <<files, raw, merged, records, unique, unique2, result, result2>>

(* generate_report, lines 139-171 *)
GenFinish ==
    /\ UNCHANGED <<severity, level>>
    /\ pc = "gen"
    /\ idx = Len(files)
    /\ LET merged_result == IF Len(all_results) = 1 THEN all_results[1]
                            ELSE merge_excel_results(all_results)
           rendering == update_progress(Len(files), Len(files) + 1)
           finished == update_progress(Len(files) + 1, Len(files) + 1)
       IN  \/ /\ report' = [status |-> "ok", stage |-> "word", data |-> merged_result]
              /\ statistics' = generate_statistics(merged_result)
              /\ progress' = finished
              /\ progress_log' = progress_log \o <<rendering, finished>>
           \/ /\ report' = [status |-> "error", stage |-> "word", data |-> merged_result]
              /\ statistics' = generate_statistics(merged_result)
              /\ progress' = rendering
              /\ progress_log' = Append(progress_log, rendering)
    /\ pc' = "done"
    /\ UNCHANGED <<files, raw, merged, records, unique, unique2, result, result2,
                   idx, all_results>>

(* RiskLevel::from_severity applied to a label *)
Classify ==
    /\ pc = "label"
    /\ level' = from_severity(severity)
    /\ pc' = "classified"
    /\ UNCHANGED <<files, raw, merged, records, unique, unique2, result, result2,
                   idx, all_results, progress, progress_log, report, statistics,
                   severity>>

Next ==
    \/ Classify
    \/ MergeFiles
    \/ ProcessRaw
    \/ ProcessMerged
    \/ ProcessAgain
    \/ DedupAgain
    \/ GenStart
    \/ GenFile
    \/ GenFinish

Spec == Init /\ [][Next]_vars

(***************************************************************************)
(* Properties.                                                             *)
(***************************************************************************)
RECURSIVE SumCounts(_)
SumCounts(groups) ==
    IF groups = <<>> THEN 0
    ELSE groups[1].info.record_count + SumCounts(Tail(groups))

TotalsAgree(r) ==
    /\ SumCounts(r.grouped_data) = r.total_records
    /\ Len(r.grouped_data) = r.total_groups

Processed == pc \in {"processed", "rerun", "deduped"}

(* C1: in every result of process_raw_data, and in every result that       *)
(* merge_excel_results builds from such results, the record_counts of      *)
(* grouped_data sum to total_records and grouped_data has total_groups     *)
(* entries.                                                                *)
C1_TotalsAgree ==
    /\ Processed => TotalsAgree(result)
    /\ pc = "rerun" => TotalsAgree(result2)
    /\ \A n \in 1..Len(all_results) : TotalsAgree(all_results[n])
    /\ TotalsAgree(merge_excel_results(all_results))
    /\ report.status # "none" => TotalsAgree(report.data)

(* rows of differing length, a duplicate dropped, two groups or more *)
C1_Witness ==
    /\ pc = "processed"
    /\ \E i, j \in 1..Len(raw.rows) : Len(raw.rows[i]) # Len(raw.rows[j])
    /\ Len(unique) < Len(records)
    /\ result.total_groups >= 2
    /\ result.total_records = 2

GroupPriority(g) == priority(from_severity(g.info.d_column))

OrderedBySeverity(groups) ==
    /\ \A i \in 1..(Len(groups) - 1) :
          /\ GroupPriority(groups[i]) <= GroupPriority(groups[i + 1])
          /\ GroupPriority(groups[i]) = GroupPriority(groups[i + 1])
                => groups[i].info.record_count >= groups[i + 1].info.record_count
    /\ \A i, j \in 1..Len(groups) :
          /\ from_severity(groups[i].info.d_column) = "Unknown"
          /\ from_severity(groups[j].info.d_column) # "Unknown"
          => j < i

(* C2: adjacent groups of a result of process_raw_data are in ascending    *)
(* priority and, at equal priority, in descending record_count; the        *)
(* priority of Unknown is larger than those of High, Medium and Low, so    *)
(* every Unknown group comes after every other group.                      *)
C2_OrderedBySeverity ==
    /\ \A l \in {"High", "Medium", "Low"} : priority(l) < priority("Unknown")
    /\ priority("High") = 1 /\ priority("Medium") = 2 /\ priority("Low") = 3
    /\ Processed => OrderedBySeverity(result.grouped_data)
    /\ \A n \in 1..Len(all_results) : OrderedBySeverity(all_results[n].grouped_data)

(* two High groups of different size, then Medium, then Unknown *)
C2_Witness ==
    /\ pc = "processed"
    /\ Len(result.grouped_data) = 4
    /\ GroupPriority(result.grouped_data[1]) = GroupPriority(result.grouped_data[2])
    /\ result.grouped_data[1].info.record_count
          > result.grouped_data[2].info.record_count
    /\ from_severity(result.grouped_data[3].info.d_column) = "Medium"
    /\ from_severity(result.grouped_data[4].info.d_column) = "Unknown"

(* C3: two runs of process_raw_data on the same rows yield the same        *)
(* grouped_data sequence.                                                  *)
C3_SameOrderOnRerun ==
    pc = "rerun" => result2.grouped_data = result.grouped_data

(* the records of seq at the indices in S, in index order *)
PickInOrder(seq, S) ==
    [n \in 1..Cardinality(S) |->
        seq[CHOOSE i \in S : Cardinality({j \in S : j <= i}) = n]]

KeyColumns == check_columns(column_names(raw.rows))

FirstOfKey(recs, cols) ==
    {i \in 1..Len(recs) :
        \A j \in 1..(i - 1) : dedup_key(recs[j], cols) # dedup_key(recs[i], cols)}

(* C4: deduplicate_records keeps, in input order, exactly the first record *)
(* of each distinct composite key.                                         *)
C4_KeepsFirstOfEachKey ==
    Processed => unique = PickInOrder(records, FirstOfKey(records, KeyColumns))

(* the second of three records repeats the key of the first with another   *)
(* content and is dropped                                                  *)
C4_Witness ==
    /\ pc = "processed"
    /\ Len(records) = 3
    /\ dedup_key(records[1], KeyColumns) = dedup_key(records[2], KeyColumns)
    /\ records[1] # records[2]
    /\ unique = <<records[1], records[3]>>

(* C5: deduplicating the output of deduplicate_records again, with the     *)
(* same key columns, returns it unchanged.                                 *)
C5_DedupIdempotent ==
    pc = "deduped" => unique2 = unique

(* the first pass dropped a record and kept two *)
C5_Witness ==
    /\ pc = "deduped"
    /\ Len(unique) < Len(records)
    /\ Len(unique) = 2
    /\ unique2 = unique

Readable(k) == read_excel_raw(files[k]).ok
Headers(k) == files[k].rows[1]

HeadersDiffer(current, reference) ==
    \/ Len(current) # Len(reference)
    \/ \E p \in 1..Len(current) : Trim(current[p]) # Trim(reference[p])

FailedAt(k) == ~merged.ok /\ merged.reads # <<>> /\ merged.reads[Len(merged.reads)] = k

(* C6: the merge fails on a readable source at position k >= 2 exactly     *)
(* when its header count differs from the first source's or a header       *)
(* differs from the first source's after trimming; on a content mismatch   *)
(* the error names the source, the 1-based index of the lowest mismatching *)
(* column and both header values.                                          *)
C6_HeaderValidation ==
    pc = "merged" =>
        \A k \in 2..Len(files) :
            (k \in {merged.reads[n] : n \in 1..Len(merged.reads)} /\ Readable(k)) =>
                /\ FailedAt(k) <=> HeadersDiffer(Headers(k), Headers(1))
                /\ (FailedAt(k) /\ Len(Headers(k)) = Len(Headers(1))) =>
                      LET p == CHOOSE q \in 1..Len(Headers(k)) :
                                  /\ Trim(Headers(k)[q]) # Trim(Headers(1)[q])
                                  /\ \A r \in 1..(q - 1) :
                                        Trim(Headers(k)[r]) = Trim(Headers(1)[r])
                      IN  /\ merged.err.kind = "header_content"
                          /\ merged.err.file = files[k].path
                          /\ merged.err.column = p
                          /\ merged.err.current = Headers(k)[p]
                          /\ merged.err.reference = Headers(1)[p]

(* headers [A,B] against [A,X]: column 2, values X and B *)
C6_Witness ==
    /\ pc = "merged"
    /\ Len(files) = 2
    /\ Readable(1) /\ Readable(2)
    /\ Headers(1) = HdrAB /\ Headers(2) = HdrAX
    /\ FailedAt(2)
    /\ merged.err.column = 2
    /\ merged.err.current = <<"X">>
    /\ merged.err.reference = <<"B">>

RECURSIVE DataRows(_)
DataRows(fs) ==
    IF fs = <<>> THEN <<>> ELSE Tail(fs[1].rows) \o DataRows(Tail(fs))

(* C7: a merge that succeeds returns the data rows of the sources, source  *)
(* after source and each source's rows in their order, under the first     *)
(* source's headers.                                                       *)
C7_RowsConcatenated ==
    (pc = "merged" /\ merged.ok) =>
        /\ merged.rows = DataRows(files)
        /\ merged.headers = Headers(1)

(* three sources, the first two with different rows and header spellings *)
C7_Witness ==
    /\ pc = "merged"
    /\ merged.ok
    /\ Len(files) = 3
    /\ Tail(files[1].rows) # Tail(files[2].rows)
    /\ Headers(1) # Headers(2)
    /\ Len(merged.rows) = 8

BadSources ==
    {k \in 1..Len(files) :
        \/ ~Readable(k)
        \/ k > 1 /\ Readable(1) /\ HeadersDiffer(Headers(k), Headers(1))}

FirstBad == CHOOSE k \in BadSources : \A j \in BadSources : k <= j

(* C8: when a source is unreadable, empty, header-only or fails header     *)
(* validation, the merge returns an error without rows, and the sources    *)
(* read are those up to the first such source.                             *)
C8_FailFast ==
    (pc = "merged" /\ BadSources # {}) =>
        /\ ~merged.ok
        /\ merged.err.kind # "none"
        /\ merged.rows = <<>> /\ merged.headers = <<>>
        /\ merged.reads = [n \in 1..FirstBad |-> n]

(* the second of three sources fails and the third is not read *)
C8_Witness ==
    /\ pc = "merged"
    /\ Len(files) = 3
    /\ FirstBad = 2
    /\ BadSources = {2}
    /\ merged.reads = <<1, 2>>
    /\ ~merged.ok

(* C9: with an empty source list the merge returns the no-files error and  *)
(* has read nothing.                                                       *)
C9_EmptyListRejected ==
    (pc = "merged" /\ files = <<>>) =>
        /\ ~merged.ok
        /\ merged.err.kind = "no_files"
        /\ merged.reads = <<>>

C9_Witness ==
    /\ pc = "merged"
    /\ files = <<>>
    /\ ~merged.ok
    /\ merged.reads = <<>>

(* C10: for readable sources A, B, C the merge of [A,B,C] fails exactly    *)
(* when the merge of [A,B] fails or C's headers differ from A's, and a     *)
(* content mismatch found at C reports A's header as the reference.        *)
C10_ValidatedAgainstFirst ==
    (pc = "merged" /\ Len(files) = 3 /\ \A k \in 1..3 : Readable(k)) =>
        /\ ~merged.ok <=>
              \/ ~merge_excel_files(SubSeq(files, 1, 2)).ok
              \/ HeadersDiffer(Headers(3), Headers(1))
        /\ (FailedAt(3) /\ merged.err.kind = "header_content") =>
              merged.err.reference = Headers(1)[merged.err.column]

(* B spells A's headers differently and passes; C fails on content *)
C10_Witness ==
    /\ pc = "merged"
    /\ Len(files) = 3
    /\ \A k \in 1..3 : Readable(k)
    /\ Headers(2) # Headers(1)
    /\ merge_excel_files(SubSeq(files, 1, 2)).ok
    /\ FailedAt(3)
    /\ merged.err.kind = "header_content"

HasChar(s, c) == \E i \in 1..Len(s) : s[i] = c

(* C11: from_severity returns High for a label with a high keyword,        *)
(* whatever else it holds; Medium for one with a medium keyword and no     *)
(* high keyword; Low for one with a low keyword and neither of the others; *)
(* Unknown for a label with no keyword.                                    *)
C11_FirstTierWins ==
    pc = "classified" =>
        /\ level \in {"High", "Medium", "Low", "Unknown"}
        /\ HasChar(severity, "G") => level = "High"
        /\ (HasChar(severity, "Z") /\ ~HasChar(severity, "G")) => level = "Medium"
        /\ (HasChar(severity, "D") /\ ~HasChar(severity, "G")
               /\ ~HasChar(severity, "Z")) => level = "Low"
        /\ (\A c \in {"G", "Z", "D"} : ~HasChar(severity, c)) => level = "Unknown"

(* a label with a low keyword before a high keyword *)
C11_Witness ==
    /\ pc = "classified"
    /\ severity = <<"D", "W", "G">>
    /\ level = "High"

Handed == report.stage = "word"

MergedData ==
    LET m == merge_excel_files(files)
    IN  [headers |-> m.headers, rows |-> m.rows]

DistinctFiles == \A i, j \in 1..Len(files) : i # j => files[i].path # files[j].path

(* C12: with several different sources whose headers agree, the result     *)
(* handed to the Word generator is a result of process_raw_data on the     *)
(* merged rows of all sources, so that a row repeated in another file is   *)
(* counted once.                                                           *)
C12_ReportOfMergedSources ==
    (Handed /\ Len(files) >= 2 /\ DistinctFiles /\ merge_excel_files(files).ok) =>
        report.data \in {process_raw_data(MergedData, order) :
                            order \in HashOrders(MergedData)}

(* C13: in the group sequence handed to the Word generator no group        *)
(* precedes a group of a more severe priority, and no composite key        *)
(* occurs in two groups.                                                   *)
C13_ReportSeverityFirst ==
    Handed =>
        LET groups == report.data.grouped_data
        IN  /\ \A i, j \in 1..Len(groups) :
                  i < j => GroupPriority(groups[i]) <= GroupPriority(groups[j])
            /\ \A i, j \in 1..Len(groups) :
                  i # j => groups[i].key # groups[j].key

LevelOfLabel(label) ==
    CASE label = <<"G">> -> "High"
      [] label = <<"Z">> -> "Medium"
      [] label = <<"D">> -> "Low"
      [] label = <<"V", "K">> -> "Unknown"
      [] OTHER -> "none"

(* C14: generate_statistics emits one row per group of grouped_data, in    *)
(* order: row i has seq_num i, the i-th group's record_count and problem   *)
(* name, and the label of the level from_severity gives its severity text. *)
C14_StatisticsPerGroup ==
    Handed =>
        LET groups == report.data.grouped_data
        IN  /\ Len(statistics) = Len(groups)
            /\ \A i \in 1..Len(groups) :
                  /\ statistics[i].seq_num = i
                  /\ statistics[i].problem_count = groups[i].info.record_count
                  /\ statistics[i].problem_name = groups[i].info.b_column
                  /\ LevelOfLabel(statistics[i].severity_level)
                        = from_severity(groups[i].info.d_column)

(* rows for a High group of two, a Medium, an Unknown and a Low group *)
C14_Witness ==
    /\ Handed
    /\ report.status = "ok"
    /\ Len(statistics) >= 4
    /\ statistics[1].problem_count = 2
    /\ {LevelOfLabel(statistics[i].severity_level) : i \in 1..Len(statistics)}
          = {"High", "Medium", "Low", "Unknown"}

(* C15: the b_column and d_column of every group of a result of            *)
(* process_raw_data are the column-B and column-D values of each record    *)
(* the group holds.                                                        *)
C15_GroupNamesItsRecords ==
    Processed =>
        \A n \in 1..Len(result.grouped_data) :
            LET g == result.grouped_data[n].info
            IN  \A i \in 1..Len(g.records) :
                    /\ g.b_column = get_or_empty(g.records[i], "B")
                    /\ g.d_column = get_or_empty(g.records[i], "D")

SameKeyValues(r1, r2, cols) ==
    \A n \in 1..Len(cols) : get_or_empty(r1, cols[n]) = get_or_empty(r2, cols[n])

FirstOfValues(recs, cols) ==
    {i \in 1..Len(recs) :
        \A j \in 1..(i - 1) : ~SameKeyValues(recs[j], recs[i], cols)}

(* C16: deduplicate_records drops a record exactly when an earlier record  *)
(* has the same value in every key column.                                 *)
C16_ExactMatchOnKeyColumns ==
    Processed => unique = PickInOrder(records, FirstOfValues(records, KeyColumns))

(* C17: the groups of a result of process_raw_data partition the           *)
(* deduplicated records: each group holds, in their input order, the       *)
(* records whose key of columns B and D is the group's key, and no two     *)
(* groups share a key.                                                     *)
C17_GroupsPartition ==
    Processed =>
        LET groups == result.grouped_data
        IN  /\ \A i, j \in 1..Len(groups) : i # j => groups[i].key # groups[j].key
            /\ \A n \in 1..Len(groups) :
                  LET InGroup(r) == group_key(r, "B", "D") = groups[n].key
                  IN  groups[n].info.records = SelectSeq(unique, InGroup)
            /\ \A i \in 1..Len(unique) :
                  \E n \in 1..Len(groups) :
                      groups[n].key = group_key(unique[i], "B", "D")

(* the first and third records share a group, the second has another *)
C17_Witness ==
    /\ pc = "processed"
    /\ Len(unique) = 3
    /\ group_key(unique[1], "B", "D") = group_key(unique[3], "B", "D")
    /\ group_key(unique[1], "B", "D") # group_key(unique[2], "B", "D")
    /\ \E n \in 1..Len(result.grouped_data) :
          result.grouped_data[n].info.records = <<unique[1], unique[3]>>

(* C18: in a generate_report call that succeeds, current / total never     *)
(* decreases from one update of the progress register to the next,         *)
(* current <= total in every update, and the last update has               *)
(* current = total.                                                        *)
C18_ProgressMonotonic ==
    (pc = "done" /\ report.status = "ok") =>
        /\ \A n \in 1..(Len(progress_log) - 1) :
              progress_log[n].current * progress_log[n + 1].total
                 <= progress_log[n + 1].current * progress_log[n].total
        /\ \A n \in 1..Len(progress_log) :
              progress_log[n].current <= progress_log[n].total
        /\ progress_log # <<>>
        /\ progress_log[Len(progress_log)].current
              = progress_log[Len(progress_log)].total

====
